---- MODULE Spec2Model ----
\* rmm host memory resources: pinned_memory_resource and shared_memory_resource
\* (include/rmm/mr/device/{pinned,shared}_memory_resource.hpp).
\*
\* One cooperating group is modelled: one shared_memory_resource per rank
\* 0..NumFollowers, each in its own process, plus one pinned_memory_resource.
\* Every OS or device call made by do_allocate / do_deallocate is one atomic
\* step; the processes interleave freely between calls.
EXTENDS Integers, Sequences, FiniteSets

\* ---------------------------------------------------------------- bounds
NumFollowers == 2
MaxBytes == 2
MaxCalls == 2
NumInstances == 3
MaxRounds == 3

\* ---------------------------------------------------------------- state
VARIABLES
  shmName,     \* the object the name "/shm" is bound to in the OS namespace, or NoObj
  objs,        \* every segment object created so far: [size, creator, sizedBy]
  pc,          \* where each process stands inside do_allocate / do_deallocate
  op,          \* the operation a process is in, or returned from last
  argBytes,    \* the `bytes` argument of that operation
  fd,          \* do_allocate's local `fd`
  ptr,         \* do_allocate's local `p` / do_deallocate's argument `p`
  nfds,        \* descriptors of segment objects the process holds open
  maps,        \* the process's mappings and pinned blocks: [addr, obj, len, reg]
  result,      \* how the last do_allocate ended: [kind, addr]
  log,         \* the OS/device calls of the current (or last) operation, in order
  callNo,      \* number of do_allocate calls made so far, over all processes
  faults,      \* whether OS and device calls may fail in this run
  groupBytes,  \* the byte length a bootstrap's participants all request
  eq           \* the last is_equal query and its answer: <<self, other, result>>, or <<>>

vars == <<shmName, objs, pc, op, argBytes, fd, ptr, nfds, maps, result, log,
          callNo, faults, groupBytes, eq>>

NoObj == 0
NoFd == -1
NoRank == -1
Null == 0

Leader == 0
SharedIds == 0 .. NumFollowers
PinnedId == NumFollowers + 1
Ids == SharedIds \cup {PinnedId}
Followers == SharedIds \ {Leader}

\* shared_memory_resource(int local_rank): the instance of process p has rank p.
local_rank_(p) == p

ByteSizes == 0 .. MaxBytes

\* The outcomes an OS or device call can have in this run.
OsOutcomes == IF faults THEN BOOLEAN ELSE {TRUE}

NullResult == [kind |-> "null", addr |-> Null]
NoResult == [kind |-> "none", addr |-> Null]
BadAlloc == [kind |-> "bad_alloc", addr |-> Null]
PtrResult(a) == [kind |-> "ptr", addr |-> a]

\* The lowest address not in use in process p (addresses are per process).
FreshAddr(p) ==
  CHOOSE a \in 1 .. (Cardinality(maps[p]) + 1) :
    /\ \A m \in maps[p] : m.addr # a
    /\ \A b \in 1 .. (a - 1) : \E m \in maps[p] : m.addr = b

\* The log keeps the distinct consecutive calls: a retry that repeats the last
\* call with the same outcome is not logged again.
Logged(p, call, ok) ==
  LET e == [call |-> call, ok |-> ok] IN
  IF log[p] # <<>> /\ log[p][Len(log[p])] = e THEN log[p] ELSE Append(log[p], e)

Calls(p) == [i \in 1 .. Len(log[p]) |-> log[p][i].call]

TypeOK ==
  /\ shmName \in 0 .. Len(objs)
  /\ \A i \in 1 .. Len(objs) : objs[i].size \in ByteSizes /\ objs[i].creator \in SharedIds
                                /\ objs[i].sizedBy \in SharedIds \cup {NoRank}
  /\ \A p \in Ids : /\ fd[p] \in {NoFd} \cup (1 .. Len(objs))
                    /\ argBytes[p] \in ByteSizes
                    /\ nfds[p] \in Nat
                    /\ IsFiniteSet(maps[p])
  /\ callNo \in Nat
  /\ faults \in BOOLEAN

InitCommon ==
  /\ shmName = NoObj
  /\ objs = <<>>
  /\ pc = [p \in Ids |-> "idle"]
  /\ op = [p \in Ids |-> "none"]
  /\ argBytes = [p \in Ids |-> 0]
  /\ fd = [p \in Ids |-> NoFd]
  /\ ptr = [p \in Ids |-> Null]
  /\ nfds = [p \in Ids |-> 0]
  /\ maps = [p \in Ids |-> {}]
  /\ result = [p \in Ids |-> NoResult]
  /\ log = [p \in Ids |-> <<>>]
  /\ callNo = 0
  /\ eq = <<>>

\* Any OS or device call may fail; each call picks its own byte length.
Init == InitCommon /\ faults = TRUE /\ groupBytes = 0

\* ------------------------------------------------- shared: do_allocate

\* Variant: no zero-byte test.
IsZeroRequestNever(bytes) == FALSE

\* `if (0 == bytes) { return nullptr; }`
IsZeroRequest(bytes) == bytes = 0

\* Entry of do_allocate: the zero-byte test, `int fd = -1`, and the branch on
\* local_rank_ (no OS call yet).
Allocate(p, bytes) ==
  /\ p \in SharedIds
  /\ pc[p] = "idle"
  /\ callNo' = callNo + 1
  /\ op' = [op EXCEPT ![p] = "allocate"]
  /\ argBytes' = [argBytes EXCEPT ![p] = bytes]
  /\ log' = [log EXCEPT ![p] = <<>>]
  /\ fd' = [fd EXCEPT ![p] = NoFd]
  /\ ptr' = [ptr EXCEPT ![p] = Null]
  /\ IF IsZeroRequest(bytes)
       THEN /\ result' = [result EXCEPT ![p] = NullResult]
            /\ pc' = pc
       ELSE /\ result' = [result EXCEPT ![p] = NoResult]
            /\ pc' = [pc EXCEPT ![p] = IF local_rank_(p) = 0 THEN "shm_create" ELSE "sleep"]
  /\ UNCHANGED <<shmName, objs, nfds, maps, faults, groupBytes, eq>>

\* The flags of the two shm_open calls: rank 0 passes O_RDWR | O_CREAT,
\* the other ranks O_RDWR alone.
LeaderFlags == {"O_RDWR", "O_CREAT"}
\* Variant: the followers pass O_CREAT too.
FollowerFlagsCreat == {"O_RDWR", "O_CREAT"}
FollowerFlags == {"O_RDWR"}

\* shm_open("/shm", flags, 0666) creates an empty object and binds the name to
\* it when the name is unbound and O_CREAT is given (there is no O_EXCL) ...
ShmCreates(flags, ok) == ok /\ shmName = NoObj /\ "O_CREAT" \in flags

\* ... and returns a descriptor of the object the name is then bound to, or -1.
ShmOpenFd(flags, ok) ==
  IF ~ok THEN NoFd
  ELSE IF shmName # NoObj THEN shmName
  ELSE IF "O_CREAT" \in flags THEN Len(objs) + 1
  ELSE NoFd

\* The effect of process p's `fd = shm_open("/shm", flags, 0666)`.
shm_open(p, flags, ok) ==
  /\ objs' = IF ShmCreates(flags, ok)
               THEN Append(objs, [size |-> 0, creator |-> local_rank_(p), sizedBy |-> NoRank])
               ELSE objs
  /\ shmName' = IF ShmCreates(flags, ok) THEN Len(objs) + 1 ELSE shmName
  /\ fd' = [fd EXCEPT ![p] = ShmOpenFd(flags, ok)]
  /\ nfds' = [nfds EXCEPT ![p] = IF ShmOpenFd(flags, ok) # NoFd THEN @ + 1 ELSE @]

\* Rank 0: `fd = shm_open("/shm", O_RDWR | O_CREAT, 0666)`; null when it fails.
ShmOpenCreate(p) ==
  /\ p \in SharedIds
  /\ pc[p] = "shm_create"
  /\ \E ok \in OsOutcomes :
       /\ log' = [log EXCEPT ![p] = Logged(p, "shm_open_creat", ShmOpenFd(LeaderFlags, ok) # NoFd)]
       /\ shm_open(p, LeaderFlags, ok)
       /\ IF ShmOpenFd(LeaderFlags, ok) = NoFd
            THEN /\ result' = [result EXCEPT ![p] = NullResult]
                 /\ pc' = [pc EXCEPT ![p] = "idle"]
            ELSE /\ pc' = [pc EXCEPT ![p] = "ftruncate"]
                 /\ UNCHANGED result
  /\ UNCHANGED <<op, argBytes, ptr, maps, callNo, faults, groupBytes, eq>>

\* The test the code makes on ftruncate's return value before it logs
\* "ftruncate failed" and returns null: `if (ftruncate(fd, bytes) == 0)`.
\* ftruncate returns 0 on success and -1 on failure.
FtruncateRc(ok) == IF ok THEN 0 ELSE -1
FtruncateGivesUp(rc) == rc = 0

\* Rank 0: `ftruncate(fd, bytes)`.
Ftruncate(p) ==
  /\ p \in SharedIds
  /\ pc[p] = "ftruncate"
  /\ \E ok \in OsOutcomes :
       /\ log' = [log EXCEPT ![p] = Logged(p, "ftruncate", ok)]
       /\ objs' = IF ok THEN [objs EXCEPT ![fd[p]].size = argBytes[p],
                                        ![fd[p]].sizedBy = local_rank_(p)]
                       ELSE objs
       /\ IF FtruncateGivesUp(FtruncateRc(ok))
            THEN /\ result' = [result EXCEPT ![p] = NullResult]
                 /\ pc' = [pc EXCEPT ![p] = "idle"]
            ELSE /\ pc' = [pc EXCEPT ![p] = "mmap"]
                 /\ UNCHANGED result
  /\ UNCHANGED <<shmName, op, argBytes, fd, ptr, nfds, maps, callNo, faults, groupBytes, eq>>

\* Rank > 0: `std::this_thread::sleep_for(100ms)` inside `while (fd == -1)`.
Sleep(p) ==
  /\ p \in SharedIds
  /\ pc[p] = "sleep"
  /\ pc' = [pc EXCEPT ![p] = "shm_open"]
  /\ UNCHANGED <<shmName, objs, op, argBytes, fd, ptr, nfds, maps, result, log,
                 callNo, faults, groupBytes, eq>>

\* Variant: the loop gives up after a failed attempt.
AfterOpenGivesUp(newfd) == IF newfd = NoFd THEN "idle" ELSE "mmap"

\* The loop test `while (fd == -1)`: where the follower goes after an attempt.
AfterOpen(newfd) == IF newfd = NoFd THEN "sleep" ELSE "mmap"

\* Rank > 0: `fd = shm_open("/shm", O_RDWR, 0666)` and the loop test.
ShmOpen(p) ==
  /\ p \in SharedIds
  /\ pc[p] = "shm_open"
  /\ \E ok \in OsOutcomes :
       /\ log' = [log EXCEPT ![p] = Logged(p, "shm_open", ShmOpenFd(FollowerFlags, ok) # NoFd)]
       /\ shm_open(p, FollowerFlags, ok)
       /\ pc' = [pc EXCEPT ![p] = AfterOpen(ShmOpenFd(FollowerFlags, ok))]
  /\ UNCHANGED <<op, argBytes, ptr, maps, result, callNo, faults, groupBytes, eq>>

\* `void *p = mmap(NULL, bytes, PROT_READ | PROT_WRITE, MAP_SHARED, fd, 0)`;
\* null when it fails.
Mmap(p) ==
  /\ p \in SharedIds
  /\ pc[p] = "mmap"
  /\ \E ok \in OsOutcomes :
       /\ log' = [log EXCEPT ![p] = Logged(p, "mmap", ok)]
       /\ IF ok
            THEN /\ ptr' = [ptr EXCEPT ![p] = FreshAddr(p)]
                 /\ maps' = [maps EXCEPT ![p] = @ \cup
                       {[addr |-> FreshAddr(p), obj |-> fd[p], len |-> argBytes[p], reg |-> FALSE]}]
                 /\ pc' = [pc EXCEPT ![p] = "register"]
                 /\ UNCHANGED result
            ELSE /\ result' = [result EXCEPT ![p] = NullResult]
                 /\ pc' = [pc EXCEPT ![p] = "idle"]
                 /\ UNCHANGED <<ptr, maps>>
  /\ UNCHANGED <<shmName, objs, op, argBytes, fd, nfds, callNo, faults, groupBytes, eq>>

\* `RMM_CUDA_TRY(cudaHostRegister(p, bytes, cudaHostRegisterPortable), rmm::bad_alloc);
\*  return p;`
Register(p) ==
  /\ p \in SharedIds
  /\ pc[p] = "register"
  /\ \E ok \in OsOutcomes :
       /\ log' = [log EXCEPT ![p] = Logged(p, "cudaHostRegister", ok)]
       /\ IF ok
            THEN /\ maps' = [maps EXCEPT ![p] =
                       {IF m.addr = ptr[p] THEN [m EXCEPT !.reg = TRUE] ELSE m : m \in @}]
                 /\ result' = [result EXCEPT ![p] = PtrResult(ptr[p])]
            ELSE /\ result' = [result EXCEPT ![p] = BadAlloc]
                 /\ UNCHANGED maps
       /\ pc' = [pc EXCEPT ![p] = "idle"]
  /\ UNCHANGED <<shmName, objs, op, argBytes, fd, ptr, nfds, callNo, faults, groupBytes, eq>>

\* ----------------------------------------------- shared: do_deallocate

\* RMM_ASSERT_CUDA_SUCCESS(call): a failure of the call is a fatal assertion,
\* the process terminates; otherwise execution continues at `next`.
RMM_ASSERT_CUDA_SUCCESS(ok, next) == IF ok THEN next ELSE "aborted"

\* The allocations process p holds and may hand back: the registered mappings
\* (do_allocate returns p only after cudaHostRegister succeeded).
Live(p) == {m \in maps[p] : m.reg}

\* Entry of do_deallocate(p, bytes) with an address do_allocate returned and
\* the byte length it was allocated with.
Deallocate(p, m) ==
  /\ p \in SharedIds
  /\ pc[p] = "idle"
  /\ m \in Live(p)
  /\ op' = [op EXCEPT ![p] = "deallocate"]
  /\ ptr' = [ptr EXCEPT ![p] = m.addr]
  /\ argBytes' = [argBytes EXCEPT ![p] = m.len]
  /\ log' = [log EXCEPT ![p] = <<>>]
  /\ pc' = [pc EXCEPT ![p] = "unregister"]
  /\ UNCHANGED <<shmName, objs, fd, nfds, maps, result, callNo, faults, groupBytes, eq>>

\* Entry of do_deallocate(nullptr, bytes): handing back the null address that
\* do_allocate(bytes) returned (bytes == 0, or a call that logged and gave up).
DeallocateNull(p) ==
  /\ p \in SharedIds
  /\ pc[p] = "idle"
  /\ op[p] = "allocate" /\ result[p] = NullResult
  /\ op' = [op EXCEPT ![p] = "deallocate"]
  /\ ptr' = [ptr EXCEPT ![p] = Null]
  /\ log' = [log EXCEPT ![p] = <<>>]
  /\ pc' = [pc EXCEPT ![p] = "unregister"]
  /\ UNCHANGED <<shmName, objs, argBytes, fd, nfds, maps, result, callNo, faults, groupBytes, eq>>

\* cudaHostUnregister fails on an address that is not registered (null).
UnregisterOutcomes(p) == IF ptr[p] = Null THEN {FALSE} ELSE OsOutcomes

\* A process that terminates loses its mappings and descriptors to the OS.
Reclaimed(f, p, now, empty) == IF now = "aborted" THEN [f EXCEPT ![p] = empty] ELSE f

\* Variant: the call's status is dropped, `cudaHostUnregister(p);`.
AfterUnregisterUnchecked(ok) == "munmap"

\* `RMM_ASSERT_CUDA_SUCCESS(cudaHostUnregister(p));`: where do_deallocate
\* stands after the call.
AfterUnregister(ok) == RMM_ASSERT_CUDA_SUCCESS(ok, "munmap")

\* `RMM_ASSERT_CUDA_SUCCESS(cudaHostUnregister(p));`
Unregister(p) ==
  /\ p \in SharedIds
  /\ pc[p] = "unregister"
  /\ \E ok \in UnregisterOutcomes(p) :
       LET now == AfterUnregister(ok) IN
       /\ log' = [log EXCEPT ![p] = Logged(p, "cudaHostUnregister", ok)]
       /\ pc' = [pc EXCEPT ![p] = now]
       /\ maps' = Reclaimed([maps EXCEPT ![p] =
                    {IF ok /\ m.addr = ptr[p] THEN [m EXCEPT !.reg = FALSE] ELSE m : m \in @}],
                    p, now, {})
       /\ nfds' = Reclaimed(nfds, p, now, 0)
  /\ UNCHANGED <<shmName, objs, op, argBytes, fd, ptr, result, callNo, faults, groupBytes, eq>>

\* Variants: no rank removes the name; every rank removes the name.
AfterMunmapNoUnlink(rank) == "idle"
AfterMunmapAnyRank(rank) == "shm_unlink"

\* `if (local_rank_ == 0) { shm_unlink("/shm"); }`: where do_deallocate goes
\* after munmap.
AfterMunmap(rank) == IF rank = 0 THEN "shm_unlink" ELSE "idle"

\* `munmap(p, bytes);` then the test on local_rank_.
Munmap(p) ==
  /\ p \in SharedIds
  /\ pc[p] = "munmap"
  /\ log' = [log EXCEPT ![p] = Logged(p, "munmap", TRUE)]
  /\ maps' = [maps EXCEPT ![p] = {m \in @ : m.addr # ptr[p]}]
  /\ pc' = [pc EXCEPT ![p] = AfterMunmap(local_rank_(p))]
  /\ UNCHANGED <<shmName, objs, op, argBytes, fd, ptr, nfds, result, callNo, faults, groupBytes, eq>>

\* `shm_unlink("/shm");`: the name is removed from the OS namespace; the object
\* lives on for the processes that have it open or mapped.
ShmUnlink(p) ==
  /\ p \in SharedIds
  /\ pc[p] = "shm_unlink"
  /\ log' = [log EXCEPT ![p] = Logged(p, "shm_unlink", shmName # NoObj)]
  /\ shmName' = NoObj
  /\ pc' = [pc EXCEPT ![p] = "idle"]
  /\ UNCHANGED <<objs, op, argBytes, fd, ptr, nfds, maps, result, callNo, faults, groupBytes, eq>>

\* ------------------------------------------------ pinned_memory_resource

\* do_allocate entry: the zero-byte test.
PinnedAllocate(p, bytes) ==
  /\ p = PinnedId
  /\ pc[p] = "idle"
  /\ callNo' = callNo + 1
  /\ op' = [op EXCEPT ![p] = "allocate"]
  /\ argBytes' = [argBytes EXCEPT ![p] = bytes]
  /\ log' = [log EXCEPT ![p] = <<>>]
  /\ ptr' = [ptr EXCEPT ![p] = Null]
  /\ IF IsZeroRequest(bytes)
       THEN /\ result' = [result EXCEPT ![p] = NullResult]
            /\ pc' = pc
       ELSE /\ result' = [result EXCEPT ![p] = NoResult]
            /\ pc' = [pc EXCEPT ![p] = "cudaMallocHost"]
  /\ UNCHANGED <<shmName, objs, fd, nfds, maps, faults, groupBytes, eq>>

\* `RMM_CUDA_TRY(cudaMallocHost(&p, bytes), rmm::bad_alloc); return p;`
CudaMallocHost(p) ==
  /\ p = PinnedId
  /\ pc[p] = "cudaMallocHost"
  /\ \E ok \in OsOutcomes :
       /\ log' = [log EXCEPT ![p] = Logged(p, "cudaMallocHost", ok)]
       /\ IF ok
            THEN /\ ptr' = [ptr EXCEPT ![p] = FreshAddr(p)]
                 /\ maps' = [maps EXCEPT ![p] = @ \cup
                       {[addr |-> FreshAddr(p), obj |-> NoObj, len |-> argBytes[p], reg |-> TRUE]}]
                 /\ result' = [result EXCEPT ![p] = PtrResult(FreshAddr(p))]
            ELSE /\ result' = [result EXCEPT ![p] = BadAlloc]
                 /\ UNCHANGED <<ptr, maps>>
       /\ pc' = [pc EXCEPT ![p] = "idle"]
  /\ UNCHANGED <<shmName, objs, op, argBytes, fd, nfds, callNo, faults, groupBytes, eq>>

\* do_deallocate(p, bytes) entry.
PinnedDeallocate(p, m) ==
  /\ p = PinnedId
  /\ pc[p] = "idle"
  /\ m \in Live(p)
  /\ op' = [op EXCEPT ![p] = "deallocate"]
  /\ ptr' = [ptr EXCEPT ![p] = m.addr]
  /\ argBytes' = [argBytes EXCEPT ![p] = m.len]
  /\ log' = [log EXCEPT ![p] = <<>>]
  /\ pc' = [pc EXCEPT ![p] = "cudaFreeHost"]
  /\ UNCHANGED <<shmName, objs, fd, nfds, maps, result, callNo, faults, groupBytes, eq>>

\* `RMM_ASSERT_CUDA_SUCCESS(cudaFreeHost(p));`
CudaFreeHost(p) ==
  /\ p = PinnedId
  /\ pc[p] = "cudaFreeHost"
  /\ \E ok \in OsOutcomes :
       LET now == RMM_ASSERT_CUDA_SUCCESS(ok, "idle") IN
       /\ log' = [log EXCEPT ![p] = Logged(p, "cudaFreeHost", ok)]
       /\ pc' = [pc EXCEPT ![p] = now]
       /\ maps' = Reclaimed([maps EXCEPT ![p] = {m \in @ : ~ok \/ m.addr # ptr[p]}], p, now, {})
  /\ UNCHANGED <<shmName, objs, op, argBytes, fd, ptr, nfds, result, callNo, faults, groupBytes, eq>>

\* ------------------------------------------------------------ is_equal

\* The resource objects an is_equal query can be asked of and about: several
\* instances of each variant, the shared ones of every rank.
Resources ==
  {[kind |-> "pinned", rank |-> NoRank, id |-> i] : i \in 1 .. NumInstances}
  \cup {[kind |-> "shared", rank |-> r, id |-> i] : r \in SharedIds, i \in 1 .. NumInstances}

\* `dynamic_cast<T const *>(&other) != nullptr`: both classes are final, so
\* the cast succeeds exactly when other's dynamic type is T.
dynamic_cast(T, other) == other.kind = T

\* Variant: the shared resource casts to the class it was copied from.
shared_do_is_equal_pinned_cast(other) == dynamic_cast("pinned", other)

\* shared_memory_resource::do_is_equal
shared_do_is_equal(other) == dynamic_cast("shared", other)

\* pinned_memory_resource::do_is_equal
pinned_do_is_equal(other) == dynamic_cast("pinned", other)

\* self.is_equal(other): the virtual call reaches self's own do_is_equal.
is_equal(self, other) ==
  IF self.kind = "shared" THEN shared_do_is_equal(other) ELSE pinned_do_is_equal(other)

\* One is_equal query; it reads no state of either resource.
IsEqual(self, other) ==
  /\ eq' = <<self, other, is_equal(self, other)>>
  /\ UNCHANGED <<shmName, objs, pc, op, argBytes, fd, ptr, nfds, maps, result, log,
                 callNo, faults, groupBytes>>

\* ------------------------------------------------------- specifications

Next ==
  \E p \in Ids :
    \/ \E b \in ByteSizes : callNo < MaxCalls /\ Allocate(p, b)
    \/ ShmOpenCreate(p)
    \/ Ftruncate(p)
    \/ Sleep(p)
    \/ ShmOpen(p)
    \/ Mmap(p)
    \/ Register(p)
    \/ \E m \in maps[p] : Deallocate(p, m)
    \/ DeallocateNull(p)
    \/ Unregister(p)
    \/ Munmap(p)
    \/ ShmUnlink(p)
    \/ \E b \in ByteSizes : callNo < MaxCalls /\ PinnedAllocate(p, b)
    \/ CudaMallocHost(p)
    \/ \E m \in maps[p] : PinnedDeallocate(p, m)
    \/ CudaFreeHost(p)

Spec == Init /\ [][Next]_vars

\* One bootstrap: every participant of the group calls allocate once, all with
\* the same non-zero byte length; in a run either no OS or device call fails,
\* or any may.
BootInit == InitCommon /\ faults \in BOOLEAN /\ groupBytes \in 1 .. MaxBytes

BootStep(p) ==
  \/ op[p] = "none" /\ Allocate(p, groupBytes)
  \/ ShmOpenCreate(p)
  \/ Ftruncate(p)
  \/ Sleep(p)
  \/ ShmOpen(p)
  \/ Mmap(p)
  \/ Register(p)

BootNext == \E p \in SharedIds : BootStep(p)

\* Every process is scheduled again and again (the OS scheduler is fair).
BootSpec == BootInit /\ [][BootNext]_vars /\ \A p \in SharedIds : WF_vars(BootStep(p))

\* is_equal queries between any two resources.
EqInit == InitCommon /\ faults = FALSE /\ groupBytes = 0

EqNext == \E self \in Resources, other \in Resources : IsEqual(self, other)

EqSpec == EqInit /\ [][EqNext]_vars

\* Repeated use of one group: the leader and one follower allocate and
\* deallocate again and again, all with the same non-zero byte length; in a
\* run either no OS or device call fails, or any may.
ReuseIds == {Leader, Leader + 1}

ReuseInit == InitCommon /\ faults \in BOOLEAN /\ groupBytes \in 1 .. MaxBytes

ReuseNext ==
  \E p \in ReuseIds :
    \/ callNo < MaxRounds /\ Allocate(p, groupBytes)
    \/ ShmOpenCreate(p)
    \/ Ftruncate(p)
    \/ Sleep(p)
    \/ ShmOpen(p)
    \/ Mmap(p)
    \/ Register(p)
    \/ \E m \in maps[p] : Deallocate(p, m)
    \/ Unregister(p)
    \/ Munmap(p)
    \/ ShmUnlink(p)

ReuseSpec == ReuseInit /\ [][ReuseNext]_vars

\* ----------------------------------------------------------- properties

\* Process p has returned from do_allocate / from do_deallocate.
Returned(p) == pc[p] = "idle" /\ op[p] = "allocate"
Released(p) == pc[p] = "idle" /\ op[p] = "deallocate"

LogHas(p, call, ok) == \E i \in 1 .. Len(log[p]) : log[p][i] = [call |-> call, ok |-> ok]

IsPrefix(s, t) == Len(s) <= Len(t) /\ \A i \in 1 .. Len(s) : s[i] = t[i]

\* The address do_allocate returned to p is a registered mapping of p.
MappedAndRegistered(p) ==
  /\ result[p].kind = "ptr"
  /\ result[p].addr # Null
  /\ \E m \in maps[p] : m.addr = result[p].addr /\ m.reg /\ m.obj # NoObj

\* C1: a rank-0 allocate with bytes > 0 returns null at the create/size step
\* if and only if shm_open or ftruncate failed; when both succeed the leader
\* goes on to mmap, and with mmap and cudaHostRegister succeeding too it
\* returns the mapped, registered, non-null address.
C1_NullIffCreateOrSizeFailed ==
  \A p \in SharedIds :
    (local_rank_(p) = 0 /\ Returned(p) /\ argBytes[p] > 0) =>
      LET createSizeFailed == LogHas(p, "shm_open_creat", FALSE) \/ LogHas(p, "ftruncate", FALSE)
          nullAtCreateSize == result[p] = NullResult /\ Len(log[p]) <= 2
      IN /\ nullAtCreateSize <=> createSizeFailed
         /\ ~createSizeFailed =>
              /\ Len(log[p]) >= 3 /\ log[p][3].call = "mmap"
              /\ (\A i \in 1 .. Len(log[p]) : log[p][i].ok) => MappedAndRegistered(p)

\* p's allocate ended holding a mapping of exactly the group's byte length
\* onto the named segment.
HoldsMapping(p) ==
  /\ result[p].kind = "ptr"
  /\ shmName # NoObj
  /\ \E m \in maps[p] : m.addr = result[p].addr /\ m.len = groupBytes /\ m.obj = shmName

\* C2: in a bootstrap in which no OS or device call fails, every participant
\* (leader included) that has returned from allocate holds a mapping of
\* exactly bytes bytes onto the named segment (the result the claim says every
\* participant eventually reaches).
C2_EveryParticipantMaps ==
  ~faults => \A p \in SharedIds : Returned(p) => HoldsMapping(p)

\* C3: whenever a follower's open of the named segment has succeeded, the
\* segment it opened has already been sized to the requested bytes.
C3_OpenedSegmentIsSized ==
  ~faults => \A p \in Followers : fd[p] # NoFd => objs[fd[p]].size = groupBytes

\* C4: in one bootstrap the named segment is created exactly once (as soon as
\* the leader's shm_open has succeeded) and only by rank 0; a participant of
\* another rank never creates or sizes a segment, it only opens an existing one.
C4_CreatedOnceByRankZero ==
  /\ Len(objs) <= 1
  /\ \A i \in 1 .. Len(objs) : objs[i].creator = 0 /\ objs[i].sizedBy \in {NoRank, 0}
  /\ \A p \in SharedIds :
       /\ (local_rank_(p) = 0 /\ LogHas(p, "shm_open_creat", TRUE)) => Len(objs) = 1
       /\ (local_rank_(p) # 0 /\ fd[p] # NoFd) =>
            fd[p] \in 1 .. Len(objs) /\ objs[fd[p]].creator = 0

C4_Witness ==
  /\ Len(objs) = 1
  /\ \A p \in Followers : Returned(p) /\ fd[p] = 1 /\ result[p].kind = "ptr"

\* C5: for every resource, allocate with bytes == 0 returns the null address
\* at once and performs no OS or device call: the call is over (no step of it
\* is pending, so no open-retry loop), its result is null and its call log is
\* empty, and it acquired no descriptor and no mapping.
C5_ZeroBytesIsNoOp ==
  \A p \in Ids :
    (op[p] = "allocate" /\ argBytes[p] = 0) =>
      /\ pc[p] = "idle"
      /\ result[p] = NullResult
      /\ log[p] = <<>>
      /\ fd[p] = NoFd
      /\ callNo = 1 => (nfds[p] = 0 /\ maps[p] = {} /\ objs = <<>>)

C5_Witness ==
  /\ \E p \in Followers : Returned(p) /\ argBytes[p] = 0 /\ result[p] = NullResult
                          /\ nfds[p] = 0 /\ shmName # NoObj
  /\ callNo = 2

\* C6: for every resource and every bytes > 0, allocate returns a non-null
\* address or fails with an allocation failure; it never returns null.
C6_NeverNullForNonZero ==
  \A p \in Ids :
    (Returned(p) /\ argBytes[p] > 0) =>
      /\ result[p].kind \in {"ptr", "bad_alloc"}
      /\ result[p].kind = "ptr" => result[p].addr # Null

C8_RoundTripLeavesNothing ==
  \A p \in SharedIds :
    (Released(p) /\ ptr[p] # Null) =>
      /\ \A m \in maps[p] : m.addr # ptr[p]
      /\ maps[p] = {} => nfds[p] = 0

DeallocOrder(rank) ==
  IF rank = 0 THEN <<"cudaHostUnregister", "munmap", "shm_unlink">>
  ELSE <<"cudaHostUnregister", "munmap">>

\* C9: deallocate performs cudaHostUnregister, then munmap, then (rank 0 only)
\* shm_unlink, in this order; the name "/shm" is never removed by a step of a
\* participant whose rank is not 0.
C9_DeallocOrderAndRankZeroUnlink ==
  /\ [](\A p \in SharedIds :
          op[p] = "deallocate" =>
            /\ IsPrefix(Calls(p), DeallocOrder(local_rank_(p)))
            /\ pc[p] = "idle" => Calls(p) = DeallocOrder(local_rank_(p)))
  /\ [][(shmName # NoObj /\ shmName' = NoObj) =>
          \E p \in SharedIds : local_rank_(p) = 0 /\ pc[p] = "shm_unlink" /\ pc'[p] = "idle"]_vars

C9_Witness ==
  /\ Released(Leader) /\ Calls(Leader) = DeallocOrder(0)
  /\ \E p \in Followers : Released(p) /\ Calls(p) = DeallocOrder(local_rank_(p))
                          /\ LogHas(p, "munmap", TRUE)

\* The follower is inside `while (fd == -1) { sleep; shm_open }`.
InLoop(p) == pc[p] \in {"sleep", "shm_open"}

\* C10: a follower leaves the open-retry loop only by a successful open of the
\* existing segment: while "/shm" is unbound no step takes it out of the loop
\* (no return, no null, no failure), so it loops for as long as the leader
\* creates nothing.
C10_LoopHasNoOtherExit ==
  [][\A p \in Followers :
       (InLoop(p) /\ ~InLoop(p)') =>
         (shmName # NoObj /\ fd'[p] = shmName /\ pc'[p] = "mmap")]_vars

C10_Witness ==
  /\ Returned(Leader) /\ argBytes[Leader] > 0 /\ objs = <<>>
  /\ \E p \in Followers : pc[p] = "sleep" /\ LogHas(p, "shm_open", FALSE) /\ shmName = NoObj

\* C11: A.is_equal(B) is true if and only if A and B are the same variant,
\* whatever their instance identity and (for shared ones) their ranks; a pinned
\* and a shared resource never compare equal, in either direction.
C11_EqualIffSameVariant ==
  eq # <<>> => (eq[3] <=> (eq[1].kind = eq[2].kind))

C11_Witness ==
  /\ eq # <<>>
  /\ eq[1].kind = "shared" /\ eq[2].kind = "shared"
  /\ eq[1].rank # eq[2].rank /\ eq[1].id # eq[2].id
  /\ eq[3] = TRUE

\* The device release step of a deallocation failed in process p.
ReleaseFailed(p) ==
  LogHas(p, "cudaHostUnregister", FALSE) \/ LogHas(p, "cudaFreeHost", FALSE)

\* C12: deallocate never reports a failure to its caller, for either variant:
\* a deallocate that returned had its release step succeed, and a failed
\* release step (cudaFreeHost, cudaHostUnregister) terminates the process on
\* the spot, so that the later steps of the shared deallocation (munmap,
\* shm_unlink) are not performed.
C12_ReleaseFailureIsFatal ==
  \A p \in Ids :
    /\ Released(p) => ~ReleaseFailed(p)
    /\ (op[p] = "deallocate" /\ ReleaseFailed(p)) =>
         /\ pc[p] = "aborted"
         /\ Len(log[p]) = 1
         /\ ~LogHas(p, "munmap", TRUE)
         /\ ~LogHas(p, "shm_unlink", TRUE) /\ ~LogHas(p, "shm_unlink", FALSE)
    /\ pc[p] = "aborted" => (op[p] = "deallocate" /\ ReleaseFailed(p))

C12_Witness ==
  /\ pc[Leader] = "aborted" /\ ptr[Leader] # Null
  /\ LogHas(Leader, "cudaHostUnregister", FALSE)
  /\ shmName # NoObj
  /\ pc[PinnedId] = "aborted" /\ LogHas(PinnedId, "cudaFreeHost", FALSE)

\* The leader has returned from a deallocate that removed the name while
\* follower p is still inside its open-retry loop.
Stranded(p) ==
  /\ InLoop(p)
  /\ shmName = NoObj
  /\ Released(Leader) /\ LogHas(Leader, "shm_unlink", TRUE)

\* C13: the leader's deallocate does not wait for followers (the state of
\* C13_Witness is reached), and from such a state no step takes the follower
\* out of its loop: it stays in it until a segment of that name is created
\* again, which only a new rank-0 shm_open does.
C13_StrandedFollowerStaysInLoop ==
  [][\A p \in Followers :
       Stranded(p) =>
         /\ InLoop(p)'
         /\ shmName' # NoObj =>
              /\ Len(objs') = Len(objs) + 1
              /\ shmName' = Len(objs')
              /\ objs'[shmName'].creator = 0]_vars

C13_Witness ==
  \E p \in Followers : Stranded(p) /\ LogHas(p, "shm_open", FALSE) /\ argBytes[p] > 0

\* p holds the allocation its last allocate returned.
HasAllocation(p) ==
  /\ Returned(p) /\ result[p].kind = "ptr"
  /\ \E m \in Live(p) : m.addr = result[p].addr

\* The segment object behind that allocation.
Backing(p) == (CHOOSE m \in Live(p) : m.addr = result[p].addr).obj

\* C14: all participants of the group whose allocate returned a non-null
\* address are mapped onto the same segment object, over any interleaving of
\* the leader's and the followers' allocate and deallocate calls.
C14_AllOnTheSameSegment ==
  \A p \in SharedIds, q \in SharedIds :
    (HasAllocation(p) /\ HasAllocation(q)) => Backing(p) = Backing(q)

\* The leader's allocate with bytes > 0 ended without a mapped address.
LeaderFailed ==
  /\ Returned(Leader) /\ argBytes[Leader] > 0
  /\ result[Leader].kind \in {"null", "bad_alloc"}

\* C15: if the leader's allocate with bytes > 0 ended without a mapped address,
\* the segment that call created is not left behind under the name, and no
\* follower's allocate has returned a non-null address mapped onto it.
C15_FailedLeaderLeavesNoSegment ==
  LeaderFailed =>
    /\ shmName = NoObj
    /\ \A p \in Followers :
         ~(HasAllocation(p) /\ objs[Backing(p)].creator = local_rank_(Leader))

\* C16: two live allocations with bytes > 0 that the same shared instance
\* returned are backed by distinct storage: no two of an instance's live
\* mappings are mappings of the same segment object (already in the runs in
\* which no OS or device call fails).
C16_LiveAllocationsAreDistinct ==
  ~faults =>
    \A p \in SharedIds :
      \A m \in Live(p), n \in Live(p) : m # n => m.obj # n.obj

\* C17: deallocate(null, 0), of the null a zero-byte allocate returned, changes
\* nothing: it makes no OS or device call (no cudaHostUnregister, and no
\* shm_unlink on rank 0) and does not end in the fatal assertion.
C17_NullDeallocateIsNoOp ==
  \A p \in SharedIds :
    (op[p] = "deallocate" /\ ptr[p] = Null /\ argBytes[p] = 0) =>
      /\ log[p] = <<>>
      /\ pc[p] # "aborted"

====
